---- MODULE Spec2Model ----
(***************************************************************************)
(* Model of packages/tracing/src/hubextensions.ts (sampling engine,        *)
(* sample-rate validator, transaction factory) and                         *)
(* packages/tracing/src/utils.ts (hasTracingEnabled, sentry-trace header   *)
(* parser, tracestate header encoder).                                     *)
(*                                                                         *)
(* JavaScript values are records [t, k, n]: t is the language type, k a    *)
(* sub-kind and n an integer payload.  A finite number n stands for the    *)
(* real n / Scale, so that rates between 0 and 1 and Math.random() draws   *)
(* in [0, 1) are integers 0 .. Scale.                                      *)
(***************************************************************************)
EXTENDS Integers, Sequences, FiniteSets, TLC

\* ------------------------------------------------------------------ bounds
\* resolution of the unit interval: the number n is n / Scale
Scale == 4
\* numbers -MaxNum .. MaxNum (in units of 1 / Scale) are given to the validator
MaxNum == 24

\* -------------------------------------------------------- JavaScript values
Undefined == [t |-> "undefined", k |-> "", n |-> 0]
Null == [t |-> "null", k |-> "", n |-> 0]
True == [t |-> "boolean", k |-> "", n |-> 1]
False == [t |-> "boolean", k |-> "", n |-> 0]
Num(i) == [t |-> "number", k |-> "finite", n |-> i]
NaN == [t |-> "number", k |-> "NaN", n |-> 0]
PosInfinity == [t |-> "number", k |-> "Infinity", n |-> 1]
NegInfinity == [t |-> "number", k |-> "Infinity", n |-> -1]
Str(s) == [t |-> "string", k |-> s, n |-> 0]
Obj(kind) == [t |-> "object", k |-> kind, n |-> 0]
Symbol == [t |-> "symbol", k |-> "", n |-> 0]
BigInt(i) == [t |-> "bigint", k |-> "", n |-> i]
Function == [t |-> "function", k |-> "", n |-> 0]
\* a key that the object does not have
Absent == [t |-> "absent", k |-> "", n |-> 0]

Booleans == {True, False}
\* "" and "1" are numeric strings, "abc" is not
Strings == {Str(""), Str("1"), Str("abc")}
\* {} and an object referring to itself convert to NaN, [] converts to 0,
\* Object.create(null) has no conversion to a primitive
Objects == {Obj("plain"), Obj("circular"), Obj("array"), Obj("nullProto")}
SpecialNums == {NaN, PosInfinity, NegInfinity}
NonNumbers == {Undefined, Null} \cup Strings \cup Objects \cup {Symbol, BigInt(1), Function}
\* the numbers around the ends of the unit interval
EdgeNums == {Num(i) : i \in {-1, 0, 1, Scale - 1, Scale, Scale + 1}}
AllNums == {Num(i) : i \in -MaxNum .. MaxNum}
\* what a user-supplied rate can be
RateValues == Booleans \cup EdgeNums \cup SpecialNums \cup NonNumbers
ValidatorInputs == Booleans \cup AllNums \cup SpecialNums \cup NonNumbers

\* typeof v
TypeOf(v) == IF v.t = "null" THEN "object" ELSE v.t

\* ToNumber(v) throws a TypeError for a Symbol, a BigInt and an object
\* without a primitive conversion
ToNumberThrows(v) == v.t \in {"symbol", "bigint"} \/ v = Obj("nullProto")

\* ToNumber(v), where it does not throw
ToNumber(v) ==
  CASE v.t = "number" -> v
    [] v.t = "boolean" -> Num(v.n * Scale)
    [] v.t = "null" -> Num(0)
    [] v.t = "undefined" -> NaN
    [] v.t = "string" -> IF v.k = "" THEN Num(0)
                         ELSE IF v.k = "1" THEN Num(Scale) ELSE NaN
    [] v.t = "object" -> IF v.k = "array" THEN Num(0) ELSE NaN
    [] OTHER -> NaN

\* Number(v) converts a BigInt where ToNumber throws
NumberThrows(v) == v.t = "symbol" \/ v = Obj("nullProto")

Number(v) == IF v.t = "bigint" THEN Num(v.n * Scale) ELSE ToNumber(v)

\* JSON.stringify(v) throws for a circular structure and for a BigInt
JSONStringifyThrows(v) == v = Obj("circular") \/ v.t = "bigint"

\* a < b for two numbers (false when either is NaN)
NumLess(a, b) ==
  IF a.k = "NaN" \/ b.k = "NaN" THEN FALSE
  ELSE IF a.k = "Infinity" /\ b.k = "Infinity" THEN a.n < b.n
  ELSE IF a.k = "Infinity" THEN a.n < 0
  ELSE IF b.k = "Infinity" THEN b.n > 0
  ELSE a.n < b.n

\* !v for the values that reach the truthiness test
Falsy(v) ==
  \/ v.t \in {"undefined", "null"}
  \/ v = False
  \/ v.t = "number" /\ (v.k = "NaN" \/ (v.k = "finite" /\ v.n = 0))
  \/ v = Str("")

\* ---------------------------------------------------------------- validator
\* isNaN(rate) || !(typeof rate === 'number' || typeof rate === 'boolean')
NotANumberOrBoolean(rate) ==
  ToNumber(rate).k = "NaN" \/ ~(TypeOf(rate) \in {"number", "boolean"})

\* isValidSampleRate throws when isNaN(rate) throws, or when the warning's
\* JSON.stringify(rate) throws
isValidSampleRateThrows(rate) ==
  \/ ToNumberThrows(rate)
  \/ NotANumberOrBoolean(rate) /\ JSONStringifyThrows(rate)

\* the range test without its upper end
isValidSampleRate_NoUpperBound(rate) ==
  IF NotANumberOrBoolean(rate) THEN FALSE
  ELSE IF NumLess(ToNumber(rate), Num(0)) THEN FALSE
  ELSE TRUE

isValidSampleRate(rate) ==
  IF NotANumberOrBoolean(rate) THEN FALSE
  ELSE IF NumLess(ToNumber(rate), Num(0)) \/ NumLess(Num(Scale), ToNumber(rate)) THEN FALSE
  ELSE TRUE

\* ------------------------------------------------------------------- state
VARIABLES
  client,            \* hub.getClient(): [present, options]
  transaction,       \* the transaction the factory last returned (or threw on)
  call,              \* what the last factory call was given and how it ended
  rate,              \* argument of the last isValidSampleRate call
  valid,             \* its completion
  traceparent,       \* argument of extractTraceparentData
  traceparentData,   \* its result
  tracestateData,    \* argument of computeTracestateValue
  tracestate,        \* its result
  given              \* the tracestate data as the caller passed them (history)

vars == <<client, transaction, call, rate, valid, traceparent, traceparentData,
          tracestateData, tracestate, given>>

\* ----------------------------------------------------------------- options
\* options._experiments?.maxSpans: not configured, or some number of spans
MaxSpansValues == {Undefined, Num(1000)}

\* client?.options ?? {}
EmptyOptions == [tracesSampleRate |-> Absent, tracesSampler |-> Absent, maxSpans |-> Undefined]

\* tracesSampler is missing, a function, or (a misconfiguration) not a function
SamplerValues == {Absent, Function, Undefined}

OptionsValues ==
  [tracesSampleRate : {Absent} \cup RateValues, tracesSampler : SamplerValues,
   maxSpans : MaxSpansValues]

\* 'tracesSampleRate' in options || 'tracesSampler' in options
hasTracingEnabled(options) ==
  options.tracesSampleRate # Absent \/ options.tracesSampler # Absent

\* ------------------------------------------------------------- transaction
NoMetadata == [method |-> "None", rate |-> Absent]

NoRecorder == [initialized |-> FALSE, maxSpans |-> Undefined]

\* new Transaction(transactionContext, hub) / new IdleTransaction(...): the
\* sampled value of the context is copied, nothing is recorded yet
NewTransaction(kind, transactionContext) ==
  [kind |-> kind, sampled |-> transactionContext.sampled,
   metadata |-> NoMetadata, spanRecorder |-> NoRecorder]

\* transaction.setMetadata({ transactionSampling: { method, rate } })
setMetadata(t, method, r) == [t EXCEPT !.metadata = [method |-> method, rate |-> r]]

\* transaction.initSpanRecorder(maxSpans)
initSpanRecorder(t, maxSpans) ==
  [t EXCEPT !.spanRecorder = [initialized |-> TRUE, maxSpans |-> maxSpans]]

\* --------------------------------------------------------- sampling engine
\* a completion of sample(): the transaction as the call left it, whether the
\* call returned or threw (and what threw), what tracesSampler returned if it
\* was called and the Math.random() draw if there was one
Completion(t, outcome, thrownBy, samplerResult, draw) ==
  [transaction |-> t, outcome |-> outcome, thrownBy |-> thrownBy,
   samplerResult |-> samplerResult, draw |-> draw]

Returns(t, samplerResult, draw) == Completion(t, "returned", "", samplerResult, draw)

Throws(t, thrownBy, samplerResult) == Completion(t, "threw", thrownBy, samplerResult, Absent)

\* !client || !hasTracingEnabled(options)
Bail_ClientAndDisabled(hub, options) == ~hub.present /\ ~hasTracingEnabled(options)

Bail(hub, options) == ~hub.present \/ ~hasTracingEnabled(options)

\* transaction.sampled !== undefined
Forced_OnlyTruthy(t) == t.sampled = True

Forced(t) == t.sampled # Undefined

\* which of the three sources gives the candidate rate
RateSource_InheritanceFirst(options, samplingContext) ==
  IF samplingContext.parentSampled # Undefined THEN "Inheritance"
  ELSE IF TypeOf(options.tracesSampler) = "function" THEN "Sampler"
  ELSE "Rate"

RateSource(options, samplingContext) ==
  IF TypeOf(options.tracesSampler) = "function" THEN "Sampler"
  ELSE IF samplingContext.parentSampled # Undefined THEN "Inheritance"
  ELSE "Rate"

\* Math.random() < sampleRate
Roll_Flipped(random, sampleRate) == NumLess(ToNumber(sampleRate), Num(random))

Roll(random, sampleRate) == NumLess(Num(random), ToNumber(sampleRate))

\* validation of the candidate rate, the roll, the recorder
Decide(options, t, sampleRate, samplerResult, random) ==
  IF isValidSampleRateThrows(sampleRate)
  THEN Throws(t, "isValidSampleRate", samplerResult)
  ELSE IF ~isValidSampleRate(sampleRate)
  THEN Returns([t EXCEPT !.sampled = False], samplerResult, Absent)
  ELSE IF Falsy(sampleRate)
  THEN Returns([t EXCEPT !.sampled = False], samplerResult, Absent)
  ELSE IF ~Roll(random, sampleRate)
  THEN Returns([t EXCEPT !.sampled = False], samplerResult, Num(random))
  ELSE Returns(initSpanRecorder([t EXCEPT !.sampled = True], options.maxSpans),
               samplerResult, Num(random))

\* options.tracesSampleRate, undefined when the key is missing
tracesSampleRate(options) ==
  IF options.tracesSampleRate = Absent THEN Undefined ELSE options.tracesSampleRate

\* sample(hub, transaction, samplingContext); sampler is what a call of
\* options.tracesSampler does: [throws, result]
sample(hub, t, samplingContext, sampler, random) ==
  LET options == IF hub.present THEN hub.options ELSE EmptyOptions
      source == RateSource(options, samplingContext)
  IN
  IF Bail(hub, options)
  THEN Returns([t EXCEPT !.sampled = False], Absent, Absent)
  ELSE IF Forced(t)
  THEN Returns(setMetadata(t, "Explicit", Absent), Absent, Absent)
  ELSE IF source = "Sampler"
  THEN IF sampler.throws
       THEN Throws(t, "tracesSampler", Absent)
       ELSE IF NumberThrows(sampler.result)
       THEN Throws(t, "Number", sampler.result)
       ELSE Decide(options, setMetadata(t, "Sampler", Number(sampler.result)),
                   sampler.result, sampler.result, random)
  ELSE IF source = "Inheritance"
  THEN Decide(options, setMetadata(t, "Inheritance", Absent),
              samplingContext.parentSampled, Absent, random)
  ELSE IF NumberThrows(tracesSampleRate(options))
  THEN Throws(t, "Number", Absent)
  ELSE Decide(options, setMetadata(t, "Rate", Number(tracesSampleRate(options))),
              tracesSampleRate(options), Absent, random)

\* ------------------------------------------------------ transaction factory
\* transactionContext.sampled and .parentSampled are boolean | undefined
ContextFlags == {Undefined, True, False}

TransactionContexts == [sampled : ContextFlags, parentSampled : ContextFlags]

\* customSamplingContext: without a parentSampled key, or with one of any value
CustomParentSampled == {Absent, Undefined, True, False, Num(1), Str("abc")}

\* what a call of the tracesSampler callback can do
SamplerBehaviours ==
  {[throws |-> TRUE, result |-> Undefined]} \cup
  {[throws |-> FALSE, result |-> r] : r \in RateValues}

Draws == 0 .. Scale - 1

\* { parentSampled: transactionContext.parentSampled, transactionContext,
\*   ...customSamplingContext }
SamplingContext(transactionContext, customParentSampled) ==
  [parentSampled |-> IF customParentSampled # Absent THEN customParentSampled
                     ELSE transactionContext.parentSampled,
   transactionContext |-> transactionContext]

NoCall ==
  [fn |-> "none", transactionContext |-> [sampled |-> Undefined, parentSampled |-> Undefined],
   parentSampled |-> Undefined, outcome |-> "none", thrownBy |-> "", samplerResult |-> Absent, draw |-> Absent]

NoTransaction == NewTransaction("none", [sampled |-> Undefined, parentSampled |-> Undefined])

\* the factory body shared by _startTransaction and startIdleTransaction; a
\* behaviour follows one transaction, from its construction to the return of
\* sample() (no state is shared between two constructions)
Start(fn, kind) ==
  /\ transaction.kind = "none"
  /\ \E transactionContext \in TransactionContexts, custom \in CustomParentSampled,
       sampler \in SamplerBehaviours, random \in Draws :
      LET samplingContext == SamplingContext(transactionContext, custom)
          c == sample(client, NewTransaction(kind, transactionContext), samplingContext,
                      sampler, random)
      IN /\ transaction' = c.transaction
         /\ call' = [fn |-> fn, transactionContext |-> transactionContext,
                     parentSampled |-> samplingContext.parentSampled,
                     outcome |-> c.outcome, thrownBy |-> c.thrownBy,
                     samplerResult |-> c.samplerResult,
                     draw |-> c.draw]
         /\ UNCHANGED <<client, rate, valid, traceparent, traceparentData,
                        tracestateData, tracestate, given>>

_startTransaction == Start("_startTransaction", "Transaction")

startIdleTransaction == Start("startIdleTransaction", "IdleTransaction")

NoClient == [present |-> FALSE, options |-> EmptyOptions]

Clients == {NoClient} \cup {[present |-> TRUE, options |-> o] : o \in OptionsValues}

NoString == <<>>

Pending == [done |-> FALSE, threw |-> FALSE, value |-> FALSE]

Init ==
  /\ client \in Clients
  /\ transaction = NoTransaction
  /\ call = NoCall
  /\ rate = Undefined
  /\ valid = Pending
  /\ traceparent = NoString
  /\ traceparentData = Pending
  /\ tracestateData = Pending
  /\ tracestate = Pending
  /\ given = Pending

Next == _startTransaction \/ startIdleTransaction

Spec == Init /\ [][Next]_vars

\* ------------------------------------------------- sampling engine: claims
\* sample() has completed on the transaction of this behaviour
Sampled == call.fn # "none"

SampleReturned == call.outcome = "returned"

\* the options carry neither tracesSampleRate nor tracesSampler, or no client
TracingDisabled ==
  \/ ~client.present
  \/ client.options.tracesSampleRate = Absent /\ client.options.tracesSampler = Absent

\* the sampled value the transaction was constructed with
SampledOnEntry == call.transactionContext.sampled

\* C1: with tracing disabled (no tracesSampler and no tracesSampleRate in the
\* options, or no client) sample() returns the transaction with sampled =
\* false whatever sampled it was constructed with and whatever parentSampled
\* is, records no sampling metadata and does not initialize the recorder.
C1_DisabledNeverSamples ==
  (Sampled /\ TracingDisabled) =>
    /\ SampleReturned
    /\ transaction.sampled = False
    /\ transaction.metadata = NoMetadata
    /\ transaction.spanRecorder = NoRecorder

C1_Witness ==
  /\ Sampled /\ TracingDisabled /\ client.present
  /\ SampledOnEntry = True
  /\ call.parentSampled = True
  /\ transaction.sampled = False

\* C2 as stated: a transaction whose sampled is already a boolean keeps that
\* value and gets method = Explicit, under every options configuration.
C2_ExplicitKeptUnderEveryOptions ==
  (Sampled /\ SampledOnEntry \in Booleans) =>
    /\ SampleReturned
    /\ transaction.sampled = SampledOnEntry
    /\ transaction.metadata.method = "Explicit"

\* C2 (amended): when there is a client and tracing is enabled, a transaction
\* whose sampled is already a boolean keeps that value, gets method = Explicit
\* with no rate, and sample() returns without calling tracesSampler or rolling.
C2_ExplicitKeptWhenEnabled ==
  (Sampled /\ ~TracingDisabled /\ SampledOnEntry \in Booleans) =>
    /\ SampleReturned
    /\ transaction.sampled = SampledOnEntry
    /\ transaction.metadata = [method |-> "Explicit", rate |-> Absent]
    /\ call.samplerResult = Absent
    /\ call.draw = Absent

C2_Witness ==
  /\ Sampled /\ ~TracingDisabled
  /\ SampledOnEntry = False
  /\ call.parentSampled = True
  /\ client.options.tracesSampleRate = Num(Scale)
  /\ transaction.sampled = False
  /\ transaction.metadata.method = "Explicit"

\* a value that is not a boolean or a number, NaN, or a number outside [0, 1]
FailsValidation(v) ==
  \/ v.t \notin {"number", "boolean"}
  \/ v.t = "number" /\ v.k = "NaN"
  \/ v.t = "number" /\ v.k = "Infinity"
  \/ v.t = "number" /\ v.k = "finite" /\ (v.n < 0 \/ v.n > Scale)

\* tracesSampler was called and returned v
SamplerReturned(v) == call.samplerResult # Absent /\ call.samplerResult = v

\* C3: when the tracesSampler callback returns 0, false or a value that fails
\* sample-rate validation, the transaction sample() returns has sampled =
\* false, whatever the transaction context and parentSampled are.
C3_SamplerDropIsFinal ==
  (SampleReturned /\ call.samplerResult # Absent /\
     (call.samplerResult \in {Num(0), False} \/ FailsValidation(call.samplerResult))) =>
    /\ transaction.sampled = False
    /\ ~transaction.spanRecorder.initialized

C3_Witness ==
  /\ SampleReturned
  /\ SamplerReturned(Num(Scale + 1))
  /\ call.parentSampled = True
  /\ client.options.tracesSampleRate = Num(Scale)
  /\ transaction.sampled = False

\* options = {tracesSampleRate: 1.0}, with or without a maxSpans experiment
RateOneOptions ==
  /\ client.present
  /\ client.options.tracesSampleRate = Num(Scale)
  /\ client.options.tracesSampler = Absent

\* C4 as stated: with options = {tracesSampleRate: 1.0} every transaction of
\* either factory, whatever its context and custom sampling context, ends
\* with sampled = true and an initialized recorder.
C4_RateOneSamplesEverything ==
  (Sampled /\ RateOneOptions) =>
    /\ transaction.sampled = True
    /\ transaction.spanRecorder.initialized

\* C4 (amended): with options = {tracesSampleRate: 1.0}, a transaction of
\* either factory whose context does not pre-set sampled and whose sampling
\* context has parentSampled undefined or true ends with sampled = true and
\* an initialized recorder; one whose context pre-sets sampled = true ends
\* with sampled = true through the Explicit branch.
C4_RateOneSamplesUndecided ==
  (Sampled /\ RateOneOptions) =>
    /\ (SampledOnEntry = Undefined /\ call.parentSampled \in {Undefined, True}) =>
         /\ SampleReturned
         /\ transaction.sampled = True
         /\ transaction.spanRecorder = [initialized |-> TRUE, maxSpans |-> client.options.maxSpans]
    /\ SampledOnEntry = True =>
         /\ SampleReturned
         /\ transaction.sampled = True
         /\ transaction.metadata.method = "Explicit"

C4_Witness ==
  /\ Sampled /\ RateOneOptions
  /\ call.fn = "startIdleTransaction"
  /\ SampledOnEntry = Undefined
  /\ call.parentSampled = Undefined
  /\ call.draw = Num(Scale - 1)
  /\ transaction.sampled = True
  /\ transaction.spanRecorder.initialized

\* C8: sample() never throws; stated for the calls in which the tracesSampler
\* callback itself did not throw: every such call returns the transaction.
C8_SampleNeverThrows ==
  (Sampled /\ call.thrownBy # "tracesSampler") => SampleReturned

\* the candidate rate of a call whose transaction was undecided on entry
CandidateRate ==
  IF TypeOf(client.options.tracesSampler) = "function" THEN call.samplerResult
  ELSE IF call.parentSampled # Undefined THEN call.parentSampled
  ELSE IF client.options.tracesSampleRate = Absent THEN Undefined
  ELSE client.options.tracesSampleRate

\* the numeric value of a boolean or number (true is 1, false is 0)
Numeric(v) == IF v.t = "boolean" THEN v.n * Scale ELSE v.n

\* C9: with tracing enabled and sampled undefined on entry, the candidate
\* rate and the recorded method follow strict precedence: tracesSampler (a
\* function) gives its return value and method Sampler; otherwise a defined
\* parentSampled gives the rate and method Inheritance with no rate recorded;
\* otherwise tracesSampleRate gives the rate and method Rate.  One method is
\* recorded also when validation fails or the roll drops the transaction.
C9_Precedence ==
  (SampleReturned /\ ~TracingDisabled /\ SampledOnEntry = Undefined) =>
    /\ transaction.metadata =
         IF TypeOf(client.options.tracesSampler) = "function"
         THEN [method |-> "Sampler", rate |-> Number(call.samplerResult)]
         ELSE IF call.parentSampled # Undefined
         THEN [method |-> "Inheritance", rate |-> Absent]
         ELSE [method |-> "Rate", rate |-> Number(CandidateRate)]
    /\ TypeOf(client.options.tracesSampler) = "function" <=> call.samplerResult # Absent
    /\ call.draw # Absent =>
         /\ ~FailsValidation(CandidateRate)
         /\ transaction.sampled = True <=> call.draw.n < Numeric(CandidateRate)
    /\ call.draw = Absent => transaction.sampled = False

\* the sampler decides although parentSampled and tracesSampleRate say otherwise
C9_Witness ==
  /\ SampleReturned /\ SampledOnEntry = Undefined
  /\ SamplerReturned(True)
  /\ call.parentSampled = False
  /\ client.options.tracesSampleRate = Num(0)
  /\ transaction.sampled = True
  /\ transaction.metadata.method = "Sampler"

\* C10: on every return from sample() the recorder has been initialized
\* (with the configured maxSpans) exactly if the transaction has sampled =
\* true, whichever branch decided it.
C10_RecorderIffSampled ==
  SampleReturned =>
    (transaction.sampled = True <=>
       transaction.spanRecorder = [initialized |-> TRUE, maxSpans |-> client.options.maxSpans])

\* ------------------------------------------------- validator: specification
\* a call of isValidSampleRate(rate): it returns a boolean or throws
isValidSampleRateCall ==
  /\ ~valid.done
  /\ valid' = [done |-> TRUE, threw |-> isValidSampleRateThrows(rate),
               value |-> IF isValidSampleRateThrows(rate) THEN FALSE
                         ELSE isValidSampleRate(rate)]
  /\ UNCHANGED <<client, transaction, call, rate, traceparent, traceparentData,
                 tracestateData, tracestate, given>>

InitValidator ==
  /\ client = NoClient
  /\ transaction = NoTransaction
  /\ call = NoCall
  /\ rate \in ValidatorInputs
  /\ valid = Pending
  /\ traceparent = NoString
  /\ traceparentData = Pending
  /\ tracestateData = Pending
  /\ tracestate = Pending
  /\ given = Pending

NextValidator == isValidSampleRateCall

SpecValidator == InitValidator /\ [][NextValidator]_vars

\* a boolean, or a number in the closed interval [0, 1]
BooleanOrUnitNumber(v) ==
  \/ v.t = "boolean"
  \/ v.t = "number" /\ v.k = "finite" /\ 0 <= v.n /\ v.n <= Scale

\* C5: isValidSampleRate(r) returns true exactly when r is a boolean or a
\* number in [0, 1], false for every other number, for NaN and for every
\* value of another type, and it never throws.
C5_ValidExactlyUnitInterval ==
  valid.done => (~valid.threw /\ (valid.value <=> BooleanOrUnitNumber(rate)))

\* ------------------------------------------------- sentry-trace header codec
\* strings are sequences of characters
\* the repetition counts of the two identifiers in TRACEPARENT_REGEXP
TraceIdLength == 32
SpanIdLength == 16

\* how far the hex runs of the headers tried are from the required lengths
MaxDelta == 1
\* the longest run of blanks around the headers tried
MaxBlanks == 1

\* [0-9a-f]
HexDigits == {"0", "1", "2", "3", "4", "5", "6", "7", "8", "9",
              "a", "b", "c", "d", "e", "f"}

\* [ \t]
Blanks == {" ", "\t"}

\* s[from], ..., s[from + n - 1] exist and are all in the class
RunOf(s, from, n, class) ==
  /\ from + n - 1 <= Len(s)
  /\ \A i \in from .. (from + n - 1) : s[i] \in class

\* the number of blanks s starts with
LeadingBlanks(s) ==
  IF \A i \in 1 .. Len(s) : s[i] \in Blanks THEN Len(s)
  ELSE (CHOOSE i \in 1 .. Len(s) : s[i] \notin Blanks /\ \A j \in 1 .. (i - 1) : s[j] \in Blanks) - 1

\* one way through the optional parts of the expression: how many leading
\* blanks [ \t]* takes and which of ([0-9a-f]{32})?, -?, ([0-9a-f]{16})?, -?
\* and ([01])? take part
Paths(s) ==
  [blanks : 0 .. LeadingBlanks(s), traceId : BOOLEAN, hyphen1 : BOOLEAN,
   spanId : BOOLEAN, hyphen2 : BOOLEAN, sampled : BOOLEAN]

\* where each part of the expression starts along a path
TraceIdAt(s, path) == 1 + path.blanks
Hyphen1At(s, path) == TraceIdAt(s, path) + (IF path.traceId THEN TraceIdLength ELSE 0)
SpanIdAt(s, path) == Hyphen1At(s, path) + (IF path.hyphen1 THEN 1 ELSE 0)
Hyphen2At(s, path) == SpanIdAt(s, path) + (IF path.spanId THEN SpanIdLength ELSE 0)
SampledAt(s, path) == Hyphen2At(s, path) + (IF path.hyphen2 THEN 1 ELSE 0)
TrailingAt(s, path) == SampledAt(s, path) + (IF path.sampled THEN 1 ELSE 0)

\* the expression without its closing [ \t]*$
TRACEPARENT_REGEXP_Unanchored(s, path) ==
  /\ RunOf(s, 1, path.blanks, Blanks)
  /\ path.traceId => RunOf(s, TraceIdAt(s, path), TraceIdLength, HexDigits)
  /\ path.hyphen1 => RunOf(s, Hyphen1At(s, path), 1, {"-"})
  /\ path.spanId => RunOf(s, SpanIdAt(s, path), SpanIdLength, HexDigits)
  /\ path.hyphen2 => RunOf(s, Hyphen2At(s, path), 1, {"-"})
  /\ path.sampled => RunOf(s, SampledAt(s, path), 1, {"0", "1"})

\* the whole of s matches the expression along the path
TRACEPARENT_REGEXP(s, path) ==
  /\ RunOf(s, 1, path.blanks, Blanks)
  /\ path.traceId => RunOf(s, TraceIdAt(s, path), TraceIdLength, HexDigits)
  /\ path.hyphen1 => RunOf(s, Hyphen1At(s, path), 1, {"-"})
  /\ path.spanId => RunOf(s, SpanIdAt(s, path), SpanIdLength, HexDigits)
  /\ path.hyphen2 => RunOf(s, Hyphen2At(s, path), 1, {"-"})
  /\ path.sampled => RunOf(s, SampledAt(s, path), 1, {"0", "1"})
  /\ RunOf(s, TrailingAt(s, path), Len(s) + 1 - TrailingAt(s, path), Blanks)

\* the order in which a backtracking matcher tries the paths: every
\* quantifier is greedy, so more blanks first and a part taking part first
Preference(path) ==
  32 * path.blanks + (IF path.traceId THEN 16 ELSE 0) + (IF path.hyphen1 THEN 8 ELSE 0)
  + (IF path.spanId THEN 4 ELSE 0) + (IF path.hyphen2 THEN 2 ELSE 0)
  + (IF path.sampled THEN 1 ELSE 0)

\* a capture group that did not take part is undefined
NoGroup == [defined |-> FALSE, text |-> NoString]

Group(s, takesPart, from, n) ==
  IF takesPart THEN [defined |-> TRUE, text |-> SubSeq(s, from, from + n - 1)] ELSE NoGroup

\* traceparent.match(TRACEPARENT_REGEXP): null, or the three capture groups
\* of the first path that matches
match(s) ==
  LET matching == {path \in Paths(s) : TRACEPARENT_REGEXP(s, path)}
  IN IF matching = {} THEN [matched |-> FALSE, groups |-> <<NoGroup, NoGroup, NoGroup>>]
     ELSE LET path == CHOOSE q \in matching :
                        \A r \in matching : Preference(r) <= Preference(q)
          IN [matched |-> TRUE,
              groups |-> <<Group(s, path.traceId, TraceIdAt(s, path), TraceIdLength),
                           Group(s, path.spanId, SpanIdAt(s, path), SpanIdLength),
                           Group(s, path.sampled, SampledAt(s, path), 1)>>]

\* the result undefined of extractTraceparentData
NoTraceparentData ==
  [kind |-> "undefined", traceId |-> NoGroup, parentSampled |-> Undefined,
   parentSpanId |-> NoGroup]

extractTraceparentData(s) ==
  LET matches == match(s)
  IN IF matches.matched
     THEN [kind |-> "object",
           traceId |-> matches.groups[1],
           parentSampled |-> IF matches.groups[3] = [defined |-> TRUE, text |-> <<"1">>] THEN True
                             ELSE IF matches.groups[3] = [defined |-> TRUE, text |-> <<"0">>] THEN False
                             ELSE Undefined,
           parentSpanId |-> matches.groups[2]]
     ELSE NoTraceparentData

\* ---- the headers tried
Rep(c, n) == [i \in 1 .. n |-> c]

BlankRun(n) == [i \in 1 .. n |-> IF i % 2 = 1 THEN " " ELSE "\t"]

HexRuns(chars, length) ==
  {NoString} \cup {Rep(c, n) : c \in chars, n \in (length - MaxDelta) .. (length + MaxDelta)}

ScenarioHeader ==
  <<" ", " ", "4", "b", "f", "9", "2", "f", "3", "5", "7", "7", "b", "3", 
    "4", "d", "a", "6", "a", "3", "c", "e", "9", "2", "9", "d", "0", "e", 
    "0", "e", "4", "7", "3", "6", "-", "0", "0", "f", "0", "6", "7", "a", 
    "a", "0", "b", "a", "9", "0", "2", "b", "7", "-", "1", " ", " ">>

ScenarioMalformed ==
  <<"n", "o", "t", "-", "a", "-", "v", "a", "l", "i", "d", "-", "h", "e", 
    "a", "d", "e", "r">>

\* blanks, a hex run, a separator, a hex run, a separator, a flag, blanks
Headers ==
  {lead \o run1 \o sep1 \o run2 \o sep2 \o flag \o trail :
     lead \in {BlankRun(n) : n \in 0 .. MaxBlanks},
     run1 \in HexRuns({"a", "1"}, TraceIdLength),
     sep1 \in {NoString, <<"-">>, <<"-", "-">>, <<"x">>},
     run2 \in HexRuns({"f", "0"}, SpanIdLength),
     sep2 \in {NoString, <<"-">>, <<"A">>},
     flag \in {NoString, <<"0">>, <<"1">>, <<"2">>},
     trail \in {BlankRun(n) : n \in 0 .. MaxBlanks} \cup {<<" ", "x">>}}
  \cup {ScenarioHeader, ScenarioMalformed}

extractTraceparentDataCall ==
  /\ ~traceparentData.done
  /\ traceparentData' = [done |-> TRUE, threw |-> FALSE, value |-> extractTraceparentData(traceparent)]
  /\ UNCHANGED <<client, transaction, call, rate, valid, traceparent,
                 tracestateData, tracestate, given>>

InitTraceparent ==
  /\ client = NoClient
  /\ transaction = NoTransaction
  /\ call = NoCall
  /\ rate = Undefined
  /\ valid = Pending
  /\ traceparent \in Headers
  /\ traceparentData = Pending
  /\ tracestateData = Pending
  /\ tracestate = Pending
  /\ given = Pending

NextTraceparent == extractTraceparentDataCall

SpecTraceparent == InitTraceparent /\ [][NextTraceparent]_vars

\* ---------------------------------------------- sentry-trace header: claims
\* the number of blanks s ends with
TrailingBlanks(s) ==
  IF \A i \in 1 .. Len(s) : s[i] \in Blanks THEN Len(s)
  ELSE Len(s) - (CHOOSE i \in 1 .. Len(s) :
                   s[i] \notin Blanks /\ \A j \in (i + 1) .. Len(s) : s[j] \in Blanks)

\* s without the blanks around it
Core(s) ==
  IF LeadingBlanks(s) = Len(s) THEN NoString
  ELSE SubSeq(s, LeadingBlanks(s) + 1, Len(s) - TrailingBlanks(s))

\* the grammar of the header: between optional blanks, an optional trace id
\* of 32 hex digits, an optional hyphen, an optional span id of 16 hex
\* digits, an optional hyphen, an optional flag 0 or 1, and nothing else
InGrammar(s) ==
  LET c == Core(s)
  IN \E t \in {0, TraceIdLength}, h1 \in {0, 1}, p \in {0, SpanIdLength},
        h2 \in {0, 1}, f \in {0, 1} :
       /\ Len(c) = t + h1 + p + h2 + f
       /\ \A i \in 1 .. Len(c) :
            IF i <= t THEN c[i] \in HexDigits
            ELSE IF i <= t + h1 THEN c[i] = "-"
            ELSE IF i <= t + h1 + p THEN c[i] \in HexDigits
            ELSE IF i <= t + h1 + p + h2 THEN c[i] = "-"
            ELSE c[i] \in {"0", "1"}

NotHyphen(c) == c # "-"

IsHyphen(c) == c = "-"

\* the digit a parentSampled value was decoded from
FlagText(v) == IF v = True THEN <<"1">> ELSE IF v = False THEN <<"0">> ELSE NoString

\* the fields of a result object are whole identifiers and, in order, they
\* are all of the header but its blanks and at most two hyphens
Accounted(s, data) ==
  /\ data.traceId.defined => (Len(data.traceId.text) = TraceIdLength
                              /\ RunOf(data.traceId.text, 1, TraceIdLength, HexDigits))
  /\ data.parentSpanId.defined => (Len(data.parentSpanId.text) = SpanIdLength
                                   /\ RunOf(data.parentSpanId.text, 1, SpanIdLength, HexDigits))
  /\ ~data.traceId.defined => data.traceId.text = NoString
  /\ ~data.parentSpanId.defined => data.parentSpanId.text = NoString
  /\ SelectSeq(Core(s), NotHyphen)
       = data.traceId.text \o data.parentSpanId.text \o FlagText(data.parentSampled)
  /\ Len(SelectSeq(Core(s), IsHyphen)) <= 2

\* C6: for every string that violates the header grammar (a hex run of a
\* wrong length, extra characters, misplaced hyphens) extractTraceparentData
\* returns undefined; a result object is returned only for a string of the
\* grammar and then its fields account for the whole string.
C6_MalformedGivesUndefined ==
  traceparentData.done =>
    /\ ~InGrammar(traceparent) => traceparentData.value = NoTraceparentData
    /\ traceparentData.value.kind = "object" => Accounted(traceparent, traceparentData.value)
    /\ traceparentData.value.kind = "undefined" => traceparentData.value = NoTraceparentData

\* a trace id one digit too long in an otherwise complete header
C6_Witness ==
  /\ traceparentData.done
  /\ traceparent = Rep("a", TraceIdLength + 1) \o <<"-">> \o Rep("f", SpanIdLength) \o <<"-", "1">>
  /\ ~InGrammar(traceparent)
  /\ traceparentData.value = NoTraceparentData

\* ----------------------------------------------------- tracestate header codec
\* text is a sequence of code points; a field of the tracestate data is a
\* string, undefined or null
TextValue(text) == [t |-> "string", text |-> text]
UndefinedValue == [t |-> "undefined", text |-> <<>>]
NullValue == [t |-> "null", text |-> <<>>]

\* the longest environment and release strings tried
MaxLen == 2

\* a, the double quote, the backslash, a line feed, e with acute accent (two
\* bytes in UTF-8) and the euro sign (three bytes)
CodePoints == {97, 34, 92, 10, 233, 8364}

Texts(n) == UNION {[1 .. k -> CodePoints] : k \in 0 .. n}

\* the key names as text
KeyText(key) ==
  CASE key = "trace_id" -> <<116, 114, 97, 99, 101, 95, 105, 100>>
    [] key = "environment" -> <<101, 110, 118, 105, 114, 111, 110, 109, 101, 110, 116>>
    [] key = "release" -> <<114, 101, 108, 101, 97, 115, 101>>
    [] key = "public_key" -> <<112, 117, 98, 108, 105, 99, 95, 107, 101, 121>>

\* value || null
OrNull_KeepEmpty(value) ==
  IF value.t \in {"undefined", "null"} THEN NullValue ELSE value

OrNull(value) ==
  IF value.t \in {"undefined", "null"} \/ value = TextValue(<<>>)
  THEN NullValue ELSE value

\* object[key] = value: an existing key keeps its place, a new key is added
\* at the end; an object is a sequence of [key, value]
Assign(object, key, value) ==
  IF \E i \in 1 .. Len(object) : object[i].key = key
  THEN [i \in 1 .. Len(object) |->
          IF object[i].key = key THEN [key |-> key, value |-> value] ELSE object[i]]
  ELSE Append(object, [key |-> key, value |-> value])

\* the JSON text of a string: quoted, with ", \ and the line feed escaped
RECURSIVE Escaped(_)
Escaped(text) ==
  IF text = <<>> THEN <<>>
  ELSE (CASE Head(text) = 34 -> <<92, 34>>
          [] Head(text) = 92 -> <<92, 92>>
          [] Head(text) = 10 -> <<92, 110>>
          [] OTHER -> <<Head(text)>>) \o Escaped(Tail(text))

Quoted(text) == <<34>> \o Escaped(text) \o <<34>>

\* the JSON text of the members from the i-th on; a member whose value is
\* undefined is left out
RECURSIVE Members(_, _, _)
Members(object, i, first) ==
  IF i > Len(object) THEN <<>>
  ELSE IF object[i].value.t = "undefined" THEN Members(object, i + 1, first)
  ELSE (IF first THEN <<>> ELSE <<44>>)
       \o Quoted(KeyText(object[i].key)) \o <<58>>
       \o (IF object[i].value.t = "null" THEN <<110, 117, 108, 108>> ELSE Quoted(object[i].value.text))
       \o Members(object, i + 1, FALSE)

\* JSON.stringify(tracestateData)
JSONStringify(object) == <<123>> \o Members(object, 1, TRUE) \o <<125>>

\* the UTF-8 bytes of a text
RECURSIVE UTF8(_)
UTF8(text) ==
  IF text = <<>> THEN <<>>
  ELSE LET c == Head(text)
       IN (IF c < 128 THEN <<c>>
           ELSE IF c < 2048 THEN <<192 + (c \div 64), 128 + (c % 64)>>
           ELSE <<224 + (c \div 4096), 128 + ((c \div 64) % 64), 128 + (c % 64)>>)
          \o UTF8(Tail(text))

Base64Alphabet ==
  <<
    "A", "B", "C", "D", "E", "F", "G", "H", "I", "J", "K", "L", "M", "N", "O", "P",
    "Q", "R", "S", "T", "U", "V", "W", "X", "Y", "Z", "a", "b", "c", "d", "e", "f",
    "g", "h", "i", "j", "k", "l", "m", "n", "o", "p", "q", "r", "s", "t", "u", "v",
    "w", "x", "y", "z", "0", "1", "2", "3", "4", "5", "6", "7", "8", "9", "+", "/">>

\* the base64 text of a byte sequence, padded with = to a multiple of four
RECURSIVE Base64(_)
Base64(bytes) ==
  IF bytes = <<>> THEN <<>>
  ELSE IF Len(bytes) = 1
  THEN <<Base64Alphabet[(bytes[1] \div 4) + 1], Base64Alphabet[((bytes[1] % 4) * 16) + 1], "=", "=">>
  ELSE IF Len(bytes) = 2
  THEN <<Base64Alphabet[(bytes[1] \div 4) + 1],
         Base64Alphabet[((bytes[1] % 4) * 16) + (bytes[2] \div 16) + 1],
         Base64Alphabet[((bytes[2] % 16) * 4) + 1], "=">>
  ELSE <<Base64Alphabet[(bytes[1] \div 4) + 1],
         Base64Alphabet[((bytes[1] % 4) * 16) + (bytes[2] \div 16) + 1],
         Base64Alphabet[((bytes[2] % 16) * 4) + (bytes[3] \div 64) + 1],
         Base64Alphabet[(bytes[3] % 64) + 1]>>
       \o Base64(SubSeq(bytes, 4, Len(bytes)))

\* unicodeToBase64(plaintext) of @sentry/utils
unicodeToBase64(text) == Base64(UTF8(text))

\* the number of = characters s ends with
TrailingEquals(s) ==
  IF \A i \in 1 .. Len(s) : s[i] = "=" THEN Len(s)
  ELSE Len(s) - (CHOOSE i \in 1 .. Len(s) :
                   s[i] # "=" /\ \A j \in (i + 1) .. Len(s) : s[j] = "=")

\* s.replace(/={1,2}$/, ''): the match is the last two characters when both
\* are =, else the last one when it is =
StripPadding(s) ==
  SubSeq(s, 1, Len(s) - (IF TrailingEquals(s) >= 2 THEN 2 ELSE TrailingEquals(s)))

\* object[key]: undefined when the object does not have the key
Get(object, key) ==
  IF \E i \in 1 .. Len(object) : object[i].key = key
  THEN object[CHOOSE i \in 1 .. Len(object) : object[i].key = key].value
  ELSE UndefinedValue

\* tracestateData after the assignments of environment and release
Normalized(data) ==
  LET withEnvironment == Assign(data, "environment", OrNull(Get(data, "environment")))
  IN Assign(withEnvironment, "release", OrNull(Get(withEnvironment, "release")))

computeTracestateValue(data) ==
  StripPadding(unicodeToBase64(JSONStringify(Normalized(data))))

\* ---- the tracestate data tried
\* in place of a value: the object literal does not have the key
MissingKey == [t |-> "missing", text |-> <<>>]

\* an environment: a missing key, undefined, null or a text
Environments == {MissingKey, UndefinedValue, NullValue} \cup {TextValue(x) : x \in Texts(MaxLen)}

\* a release: a missing key, undefined, null or a run of the letter a
Releases ==
  {MissingKey, UndefinedValue, NullValue} \cup {TextValue([i \in 1 .. k |-> 97]) : k \in 0 .. MaxLen}

TraceIds == {TextValue(<<97>>), TextValue(<<97, 233>>)}

PublicKeys == {TextValue(<<97>>), TextValue(<<34, 8364>>)}

\* the object literal { trace_id, environment, release, public_key }, without
\* the keys that are missing
TracestateData(traceId, environment, release, publicKey) ==
  <<[key |-> "trace_id", value |-> traceId]>>
  \o (IF environment = MissingKey THEN <<>> ELSE <<[key |-> "environment", value |-> environment]>>)
  \o (IF release = MissingKey THEN <<>> ELSE <<[key |-> "release", value |-> release]>>)
  \o <<[key |-> "public_key", value |-> publicKey]>>

\* JSON.stringify of these data does not throw, so neither does the call
computeTracestateValueCall ==
  /\ ~tracestate.done
  /\ tracestate' = [done |-> TRUE, threw |-> FALSE, value |-> computeTracestateValue(tracestateData)]
  /\ tracestateData' = Normalized(tracestateData)
  /\ UNCHANGED <<client, transaction, call, rate, valid, traceparent, traceparentData, given>>

InitTracestate ==
  /\ client = NoClient
  /\ transaction = NoTransaction
  /\ call = NoCall
  /\ rate = Undefined
  /\ valid = Pending
  /\ traceparent = NoString
  /\ traceparentData = Pending
  /\ \E traceId \in TraceIds, environment \in Environments, release \in Releases,
        publicKey \in PublicKeys :
       tracestateData = TracestateData(traceId, environment, release, publicKey)
  /\ tracestate = Pending
  /\ given = tracestateData

NextTracestate == computeTracestateValueCall

SpecTracestate == InitTracestate /\ [][NextTracestate]_vars

\* ------------------------------------------------- tracestate header: claims
\* the value of a base64 character
Base64Value(c) == (CHOOSE i \in 1 .. 64 : Base64Alphabet[i] = c) - 1

\* the bytes of an unpadded base64 text
RECURSIVE Base64Decode(_)
Base64Decode(s) ==
  IF Len(s) < 2 THEN <<>>
  ELSE LET v1 == Base64Value(s[1])
           v2 == Base64Value(s[2])
       IN IF Len(s) = 2 THEN <<v1 * 4 + (v2 \div 16)>>
          ELSE LET v3 == Base64Value(s[3])
               IN IF Len(s) = 3
                  THEN <<v1 * 4 + (v2 \div 16), ((v2 % 16) * 16) + (v3 \div 4)>>
                  ELSE <<v1 * 4 + (v2 \div 16), ((v2 % 16) * 16) + (v3 \div 4),
                         ((v3 % 4) * 64) + Base64Value(s[4])>>
                       \o Base64Decode(SubSeq(s, 5, Len(s)))

\* the text of a UTF-8 byte sequence
RECURSIVE UTF8Decode(_)
UTF8Decode(bytes) ==
  IF bytes = <<>> THEN <<>>
  ELSE IF bytes[1] < 128 THEN <<bytes[1]>> \o UTF8Decode(SubSeq(bytes, 2, Len(bytes)))
  ELSE IF bytes[1] < 224
  THEN <<((bytes[1] - 192) * 64) + (bytes[2] - 128)>> \o UTF8Decode(SubSeq(bytes, 3, Len(bytes)))
  ELSE <<((bytes[1] - 224) * 4096) + ((bytes[2] - 128) * 64) + (bytes[3] - 128)>>
       \o UTF8Decode(SubSeq(bytes, 4, Len(bytes)))

\* the string literal whose first character after the quote is s[i]: its
\* text and the index after its closing quote
RECURSIVE ParseString(_, _)
ParseString(s, i) ==
  IF s[i] = 34 THEN [text |-> <<>>, next |-> i + 1]
  ELSE IF s[i] = 92
  THEN LET rest == ParseString(s, i + 2)
       IN [text |-> <<IF s[i + 1] = 110 THEN 10 ELSE s[i + 1]>> \o rest.text,
           next |-> rest.next]
  ELSE LET rest == ParseString(s, i + 1)
       IN [text |-> <<s[i]>> \o rest.text, next |-> rest.next]

\* the members of the object literal from s[i] on, in order
RECURSIVE ParseMembers(_, _)
ParseMembers(s, i) ==
  IF s[i] = 125 THEN <<>>
  ELSE IF s[i] = 44 THEN ParseMembers(s, i + 1)
  ELSE LET key == ParseString(s, i + 1)
           at == key.next + 1
       IN IF s[at] = 34
          THEN LET value == ParseString(s, at + 1)
               IN <<[key |-> key.text, value |-> TextValue(value.text)]>>
                  \o ParseMembers(s, value.next)
          ELSE <<[key |-> key.text, value |-> NullValue]>> \o ParseMembers(s, at + 4)

\* JSON.parse of the text of a flat object of strings and nulls
JSONParse(s) == ParseMembers(s, 2)

\* the payload a receiver reads from the header value
Payload(header) == JSONParse(UTF8Decode(Base64Decode(header)))

\* the value of a key of the payload; undefined when the key is missing
PayloadValue(payload, key) == Get(payload, KeyText(key))

\* what the payload has to carry for an optional field
ExpectedOptional(value) ==
  IF value \in {UndefinedValue, NullValue, TextValue(<<>>)} THEN NullValue ELSE value

\* C7: the payload read back from computeTracestateValue's result has
\* environment and release null when the input gave undefined (or no key) or
\* the empty string for them and equal to the input otherwise, trace_id and
\* public_key unchanged; the result never ends in '='.
C7_TracestateRoundTrip ==
  tracestate.done =>
    /\ ~tracestate.threw
    /\ tracestate.value # <<>>
    /\ tracestate.value[Len(tracestate.value)] # "="
    /\ LET payload == Payload(tracestate.value)
       IN /\ Len(payload) = 4
          /\ PayloadValue(payload, "environment") = ExpectedOptional(Get(given, "environment"))
          /\ PayloadValue(payload, "release") = ExpectedOptional(Get(given, "release"))
          /\ PayloadValue(payload, "trace_id") = Get(given, "trace_id")
          /\ PayloadValue(payload, "public_key") = Get(given, "public_key")

\* an empty environment, a missing release, text that needs escaping and
\* multi-byte encoding, and a JSON text whose base64 form is padded with ==
C7_Witness ==
  /\ tracestate.done
  /\ Get(given, "environment") = TextValue(<<>>)
  /\ Len(given) = 3
  /\ Get(given, "public_key") = TextValue(<<34, 8364>>)
  /\ Len(UTF8(JSONStringify(tracestateData))) % 3 = 1
  /\ PayloadValue(Payload(tracestate.value), "environment") = NullValue

====
